---- MODULE Spec2Model ----
(***************************************************************************)
(* The local search core of tt: the index cache manager                    *)
(* (src/lib/local/index-manager.ts) and the search service                 *)
(* (src/lib/local/search.ts), run against a vault directory and the        *)
(* on-disk snapshot of one vault name.                                     *)
(*                                                                         *)
(* An async function is modelled between its awaits: each action is one    *)
(* synchronous stretch of the code, starting at the completion of the      *)
(* awaited I/O.  File-system events of the environment may happen between  *)
(* any two of them.                                                        *)
(***************************************************************************)
EXTENDS Integers, Sequences, FiniteSets, TLC

\* ------------------------------------------------------------------ bounds
MaxMtime == 2
MaxCalls == 2
MaxFsEvents == 1
MaxConcCalls == 2
MaxConcFsEvents == 1
MaxSearchFsEvents == 1
MaxWarmCalls == 2
MaxWarmFsEvents == 2
MaxTermLen == 2
MaxTextLen == 4

\* ------------------------------------------------------- program constants
INDEX_VERSION == 1
DEFAULT_LIMIT == 10

\* ------------------------------------------------------------ the universe
Procs == {1, 2}
ObjOrder == <<"o1", "o2", "o3">>
ObjIds == {"o1", "o2", "o3"}
NoObj == "null"
FileIds == {"a.md", "sub/b.md"}
\* the order in which glob lists the files that exist
FileOrder == <<"a.md", "sub/b.md">>
VaultPaths == {"v1", "v2"}
Contents == {"x", "y"}
\* stat's mtimeMs: milliseconds since the epoch, 0 for a file dated at the epoch
Mtimes == 0..MaxMtime
Terms == {"tx", "ty", "tz", "note"}
EmptyMap == [k \in {} |-> 0]

\* the words of a file's body: every note holds "note", and one word of its own
TermsOf(content) ==
  CASE content = "x" -> {"tx", "note"}
    [] content = "y" -> {"ty", "note"}
    [] OTHER -> {"tz", "note"}

\* the second vault directory is held fixed: one note, of a content the first
\* vault never holds
V2Files == ("a.md" :> [mtime |-> 1, content |-> "z", readable |-> TRUE])

VARIABLES
  files,      \* the directory of vault v1: id -> [mtime, content, readable]
  config,     \* the path the vault registry holds for the vault name
  disk,       \* the snapshot file of the vault name (getCachePath)
  heap,       \* the IndexState objects, by object id
  cacheRef,   \* indexCache.get(vaultName): an object id, or NoObj
  proc,       \* each caller's position and locals
  nCalls,     \* calls started so far; also the clock new Date() reads
  nEvents,    \* file-system events so far
  misuse,     \* add was called on a present id, or discard on an absent one
  watched,    \* "seen": a search ran on q's state object after q's update first
              \* changed it; "straddled": and q's update changed it again later
  text        \* the text functions at work: their input, position and output

vars == <<files, config, disk, heap, cacheRef, proc, nCalls, nEvents, misuse, watched,
          text>>

\* ---------------------------------------------------------------- vaults
Vault(path) == IF path = "v1" THEN files ELSE V2Files

\* getVaultFiles: the markdown files under the vault root, in listing order
getVaultFiles(path) ==
  SelectSeq(FileOrder, LAMBDA id : id \in DOMAIN Vault(path))

SeqToSet(s) == {s[i] : i \in 1..Len(s)}

\* stat(file) rejects exactly when the file is gone
StatFails(path, id) == id \notin DOMAIN Vault(path)

\* mutant: a file that cannot be read is extracted all the same
buildDocumentFails_ReadsAnything(path, id) == id \notin DOMAIN Vault(path)

\* buildDocument: null when readFile or stat throws, else the document
buildDocumentFails(path, id) ==
  \/ id \notin DOMAIN Vault(path)
  \/ ~Vault(path)[id].readable

buildDocument(path, id) ==
  [id |-> id, content |-> Vault(path)[id].content,
   modified |-> Vault(path)[id].mtime]

\* ------------------------------------------------------------ index store
\* The store keeps the documents by id.  add of a present id and discard of
\* an absent id throw.
AddOp(doc) == [op |-> "add", id |-> doc.id, doc |-> doc]
DiscardOp(id) == [op |-> "discard", id |-> id, doc |-> [id |-> id, content |-> "", modified |-> 0]]

StoreOpOk(idx, o) ==
  IF o.op = "add" THEN o.id \notin DOMAIN idx ELSE o.id \in DOMAIN idx

StoreOp(idx, o) ==
  IF o.op = "add"
    THEN (o.id :> o.doc) @@ idx
    ELSE [k \in DOMAIN idx \ {o.id} |-> idx[k]]

\* the calls of ops in order, up to the first that throws
RECURSIVE RunOps(_, _)
RunOps(idx, ops) ==
  IF ops = <<>> THEN [index |-> idx, ok |-> TRUE]
  ELSE IF ~StoreOpOk(idx, Head(ops)) THEN [index |-> idx, ok |-> FALSE]
  ELSE RunOps(StoreOp(idx, Head(ops)), Tail(ops))

\* index.search(term): the ids of the documents holding the term
Search(idx, term) == {id \in DOMAIN idx : term \in TermsOf(idx[id].content)}

MapRemove(m, k) == [j \in DOMAIN m \ {k} |-> m[j]]
MapPut(m, k, v) == (k :> v) @@ m

\* ------------------------------------------------------------ state objects
\* searchOptions: the query defaults the index object was constructed with
NullState ==
  [index |-> EmptyMap, documents |-> {}, version |-> 0, vaultPath |-> "",
   lastBuilt |-> 0, fileCount |-> 0, fileMtimes |-> EmptyMap,
   searchOptions |-> ""]

NoSnapshot ==
  [kind |-> "absent", version |-> 0, vaultPath |-> "", lastBuilt |-> 0,
   fileCount |-> 0, fileMtimes |-> EmptyMap, indexData |-> EmptyMap]

CorruptSnapshotFile == [NoSnapshot EXCEPT !.kind = "corrupt"]

\* no text function is at work
NoText ==
  [phase |-> "none", input |-> <<>>, tokens |-> <<>>, out |-> <<>>,
   query |-> <<>>, hit |-> FALSE]

IdleProc ==
  [pc |-> "idle", cfg |-> "v1", why |-> "", ref |-> NoObj,
   currentFiles |-> {}, todo |-> <<>>, branch |-> "",
   added |-> 0, updated |-> 0, removed |-> 0,
   loc |-> NullState, hits |-> {}, quiet |-> TRUE,
   opts |-> <<>>, ranked |-> <<>>, results |-> <<>>]

\* a vault directory as the program may find it: each note absent, or readable
\* with the first content and any timestamp
InitVaults ==
  UNION {[S -> [mtime : Mtimes, content : {"x"}, readable : {TRUE}]] :
         S \in SUBSET FileIds}

Init ==
  /\ files \in InitVaults
  /\ config = "v1"
  /\ disk = NoSnapshot
  /\ heap = [o \in ObjIds |-> NullState]
  /\ cacheRef = NoObj
  /\ proc = [p \in Procs |-> IdleProc]
  /\ nCalls = 0
  /\ nEvents = 0
  /\ misuse = FALSE
  /\ watched = [p \in Procs |-> "no"]
  /\ text = NoText

\* ------------------------------------------------------------ environment
Touch(pr) == [q \in Procs |-> IF pr[q].pc = "idle" THEN pr[q]
                                ELSE [pr[q] EXCEPT !.quiet = FALSE]]

FsEvent(cap, newFiles) ==
  /\ nEvents < cap
  /\ newFiles # files
  /\ files' = newFiles
  /\ nEvents' = nEvents + 1
  /\ proc' = Touch(proc)
  /\ UNCHANGED <<text, config, disk, heap, cacheRef, nCalls, misuse, watched>>

\* a note is created or rewritten (any content, any timestamp)
WriteFile(cap) ==
  \E id \in FileIds, m \in Mtimes, c \in Contents :
    FsEvent(cap, MapPut(files, id, [mtime |-> m, content |-> c, readable |-> TRUE]))

DeleteFile(cap) ==
  \E id \in DOMAIN files : FsEvent(cap, MapRemove(files, id))

\* a note loses its read permission (stat still answers)
MakeUnreadable(cap) ==
  \E id \in DOMAIN files :
    /\ files[id].readable
    /\ FsEvent(cap, [files EXCEPT ![id].readable = FALSE])

\* the vault is registered again under the same name with another path
SetVaultPath(cap) ==
  /\ nEvents < cap
  /\ \E path \in VaultPaths \ {config} : config' = path
  /\ nEvents' = nEvents + 1
  /\ UNCHANGED <<text, files, disk, heap, cacheRef, proc, nCalls, misuse, watched>>

\* the snapshot file is damaged (a crash in the middle of its overwrite)
CorruptSnapshot(cap) ==
  /\ nEvents < cap
  /\ disk.kind = "ok"
  /\ disk' = CorruptSnapshotFile
  /\ nEvents' = nEvents + 1
  /\ UNCHANGED <<text, files, config, heap, cacheRef, proc, nCalls, misuse, watched>>

\* the snapshot file was left by a release with another INDEX_VERSION
OtherVersionSnapshot(cap) ==
  /\ nEvents < cap
  /\ disk.kind = "ok"
  /\ disk.version = INDEX_VERSION
  /\ disk' = [disk EXCEPT !.version = INDEX_VERSION - 1]
  /\ nEvents' = nEvents + 1
  /\ UNCHANGED <<text, files, config, heap, cacheRef, proc, nCalls, misuse, watched>>

\* ------------------------------------------------------------ the heap
Referenced(o, c, pr) == o = c \/ \E q \in Procs : pr[q].ref = o

\* objects nothing refers to are dropped
Collect(h, c, pr) ==
  [o \in ObjIds |-> IF Referenced(o, c, pr) THEN h[o] ELSE NullState]

\* the first object id nothing refers to
FreeObj ==
  LET free == SelectSeq(ObjOrder, LAMBDA o : ~Referenced(o, cacheRef, proc))
  IN  Head(free)

\* ------------------------------------------------------ getSearchIndex
UpdatePcs == {"upd_list", "upd_stat", "upd_build"}

\* mutant: the version tag is not compared
loadIndexCache_NoVersionCheck(d, path) ==
  IF d.kind # "ok" THEN [outcome |-> "null", why |-> "corrupt"]
  ELSE IF d.vaultPath # path THEN [outcome |-> "null", why |-> "badPath"]
  ELSE [outcome |-> "state", why |-> "loaded"]

\* mutant: the recorded vault path is not compared
loadIndexCache_NoPathCheck(d, path) ==
  IF d.kind # "ok" THEN [outcome |-> "null", why |-> "corrupt"]
  ELSE IF d.version # INDEX_VERSION THEN [outcome |-> "null", why |-> "badVersion"]
  ELSE [outcome |-> "state", why |-> "loaded"]

\* mutant: readFile and JSON.parse outside the try
loadIndexCache_NoCatch(d, path) ==
  IF d.kind # "ok" THEN [outcome |-> "throw", why |-> "corrupt"]
  ELSE IF d.version # INDEX_VERSION THEN [outcome |-> "null", why |-> "badVersion"]
  ELSE IF d.vaultPath # path THEN [outcome |-> "null", why |-> "badPath"]
  ELSE [outcome |-> "state", why |-> "loaded"]

\* loadIndexCache: what it makes of the snapshot file it reads
loadIndexCache(d, path) ==
  IF d.kind # "ok" THEN [outcome |-> "null", why |-> "corrupt"]
  ELSE IF d.version # INDEX_VERSION THEN [outcome |-> "null", why |-> "badVersion"]
  ELSE IF d.vaultPath # path THEN [outcome |-> "null", why |-> "badPath"]
  ELSE [outcome |-> "state", why |-> "loaded"]

\* the IndexState loadIndexCache returns: documents starts empty, and loadJS
\* is given no searchOptions, so the index keeps the library's query defaults
LoadedState(d) ==
  [index |-> d.indexData, documents |-> {}, version |-> d.version,
   vaultPath |-> d.vaultPath, lastBuilt |-> d.lastBuilt,
   fileCount |-> d.fileCount, fileMtimes |-> d.fileMtimes,
   searchOptions |-> "library"]

\* saveIndexCache: the cache metadata and the serialized index
SnapshotOf(s) ==
  [kind |-> "ok", version |-> s.version, vaultPath |-> s.vaultPath,
   lastBuilt |-> s.lastBuilt, fileCount |-> s.fileCount,
   fileMtimes |-> s.fileMtimes, indexData |-> s.index]

\* mutant: forceRebuild is not looked at
FirstStep_IgnoresForce(forceRebuild, inMemory, onDisk) ==
  IF inMemory THEN "upd_list"
  ELSE IF onDisk THEN "load"
  ELSE "build_list"

\* mutant: the snapshot file is looked at before the in-memory state
FirstStep_DiskFirst(forceRebuild, inMemory, onDisk) ==
  IF ~forceRebuild /\ onDisk THEN "load"
  ELSE IF ~forceRebuild /\ inMemory THEN "upd_list"
  ELSE "build_list"

\* the path getSearchIndex takes: !forceRebuild && indexCache.has(vaultName),
\* then !forceRebuild and existsSync(cachePath), else the full build
FirstStep(forceRebuild, inMemory, onDisk) ==
  IF ~forceRebuild /\ inMemory THEN "upd_list"
  ELSE IF ~forceRebuild /\ onDisk THEN "load"
  ELSE "build_list"

\* getSearchIndex up to its first await: the in-memory state, the snapshot
\* file (existsSync), or a full build
Begin(p, cap) ==
  /\ proc[p].pc = "idle"
  /\ nCalls < cap
  /\ nCalls' = nCalls + 1
  /\ \E forceRebuild \in BOOLEAN :
       LET step == FirstStep(forceRebuild, cacheRef # NoObj, disk.kind # "absent")
           base == [IdleProc EXCEPT !.cfg = config, !.pc = step,
                                    !.why = IF forceRebuild THEN "force" ELSE ""]
       IN
       proc' = [proc EXCEPT ![p] =
         IF step = "upd_list"
           THEN [base EXCEPT !.why = IF forceRebuild THEN @ ELSE "memory",
                             !.ref = cacheRef]
         ELSE IF step = "load"
           THEN base
         ELSE [base EXCEPT !.why = IF forceRebuild THEN @ ELSE "noSnapshot"]]
  /\ watched' = [watched EXCEPT ![p] = "no"]
  /\ UNCHANGED <<text, files, config, disk, heap, cacheRef, nEvents, misuse>>

\* loadIndexCache after readFile(cachePath), and indexCache.set(loaded)
Load(p) ==
  /\ proc[p].pc = "load"
  /\ LET r == loadIndexCache(disk, proc[p].cfg)
          o == FreeObj
     IN  CASE r.outcome = "state" ->
                /\ proc' = [proc EXCEPT ![p].pc = "upd_list", ![p].why = r.why,
                                        ![p].ref = o]
                /\ cacheRef' = o
                /\ heap' = Collect([heap EXCEPT ![o] = LoadedState(disk)],
                                   cacheRef', proc')
           [] r.outcome = "null" ->
                /\ proc' = [proc EXCEPT ![p].pc = "build_list", ![p].why = r.why]
                /\ UNCHANGED <<cacheRef, heap>>
           [] OTHER ->
                /\ proc' = [proc EXCEPT ![p].pc = "failed", ![p].why = r.why]
                /\ UNCHANGED <<cacheRef, heap>>
  /\ UNCHANGED <<text, files, config, disk, nCalls, nEvents, misuse, watched>>

\* ------------------------------------------------------ buildFullIndex
\* one round of the build loop with a document: index.add, documents.set,
\* fileMtimes[doc.id] = doc.modified
BuildAdd(loc, doc, idx) ==
  [loc EXCEPT !.index = idx, !.documents = @ \cup {doc.id},
              !.fileMtimes = MapPut(@, doc.id, doc.modified)]

\* the IndexState buildFullIndex registers once its loop is over; its index
\* comes from createMiniSearch, with the configured query defaults
BuiltState(loc, path, now) ==
  [loc EXCEPT !.version = INDEX_VERSION, !.vaultPath = path,
              !.lastBuilt = now, !.fileCount = Cardinality(loc.documents),
              !.searchOptions = "configured"]

\* the build loop is over: indexCache.set(vaultName, state), then saveIndexCache
BuildDone(p, pr) ==
  LET o == FreeObj IN
  /\ proc' = [proc EXCEPT ![p] = [pr EXCEPT !.pc = "save", !.ref = o,
                                           !.loc = NullState]]
  /\ cacheRef' = o
  /\ heap' = Collect([heap EXCEPT ![o] = BuiltState(pr.loc, pr.cfg, nCalls)],
                     cacheRef', proc')

\* buildFullIndex after getVaultFiles
BuildList(p) ==
  /\ proc[p].pc = "build_list"
  /\ LET listing == getVaultFiles(proc[p].cfg)
         pr == [proc[p] EXCEPT !.currentFiles = SeqToSet(listing),
                               !.todo = listing, !.loc = NullState]
     IN  IF listing = <<>>
           THEN BuildDone(p, pr)
           ELSE /\ proc' = [proc EXCEPT ![p] = [pr EXCEPT !.pc = "build_doc"]]
                /\ UNCHANGED <<cacheRef, heap>>
  /\ UNCHANGED <<text, files, config, disk, nCalls, nEvents, misuse, watched>>

\* buildFullIndex after buildDocument of the next listed file
BuildDoc(p) ==
  /\ proc[p].pc = "build_doc"
  /\ LET id == Head(proc[p].todo)
         rest == Tail(proc[p].todo)
         null == buildDocumentFails(proc[p].cfg, id)
         doc == buildDocument(proc[p].cfg, id)
         r == IF null THEN [index |-> proc[p].loc.index, ok |-> TRUE]
              ELSE RunOps(proc[p].loc.index, <<AddOp(doc)>>)
         loc == IF null \/ ~r.ok THEN proc[p].loc
                ELSE BuildAdd(proc[p].loc, doc, r.index)
         pr == [proc[p] EXCEPT !.todo = rest, !.loc = loc]
     IN  /\ misuse' = (misuse \/ ~r.ok)
         /\ IF ~r.ok
              THEN /\ proc' = [proc EXCEPT ![p] = [pr EXCEPT !.pc = "failed"]]
                   /\ UNCHANGED <<cacheRef, heap>>
            ELSE IF rest = <<>>
              THEN BuildDone(p, pr)
            ELSE /\ proc' = [proc EXCEPT ![p] = pr]
                 /\ UNCHANGED <<cacheRef, heap>>
  /\ UNCHANGED <<text, files, config, disk, nCalls, nEvents, watched>>

\* saveIndexCache, then getSearchIndex returns state.index
Save(p) ==
  /\ proc[p].pc = "save"
  /\ disk' = SnapshotOf(heap[proc[p].ref])
  /\ proc' = [proc EXCEPT ![p].pc = "returned"]
  /\ UNCHANGED <<text, files, config, heap, cacheRef, nCalls, nEvents, misuse, watched>>

\* ---------------------------------------------------------- updateIndex
\* mutant: the deletion loop finds nothing to discard
RemovedIds_None(s, currentFiles) == {}

\* the previously known ids that the current listing no longer holds
RemovedIds(s, currentFiles) ==
  {id \in DOMAIN s.fileMtimes : id \notin currentFiles}

\* documents.delete(id); delete fileMtimes[id], beside the discard
RemoveEntry(s, id, idx) ==
  [s EXCEPT !.index = idx, !.documents = @ \ {id},
            !.fileMtimes = MapRemove(@, id)]

\* the deletion loop, up to a discard that throws
RECURSIVE DeleteLoop(_, _, _)
DeleteLoop(s, ids, n) ==
  IF ids = <<>> THEN [state |-> s, ok |-> TRUE, removed |-> n]
  ELSE LET r == RunOps(s.index, <<DiscardOp(Head(ids))>>) IN
       IF ~r.ok THEN [state |-> s, ok |-> FALSE, removed |-> n]
       ELSE DeleteLoop(RemoveEntry(s, Head(ids), r.index), Tail(ids), n + 1)

\* !oldMtime: no recorded mtime, or a recorded mtime of 0
IsNew(s, id) == id \notin DOMAIN s.fileMtimes \/ s.fileMtimes[id] = 0

\* stats.mtimeMs > oldMtime
IsModified(s, id, mtimeMs) == ~IsNew(s, id) /\ mtimeMs > s.fileMtimes[id]

\* mutant: the new-file branch does not call index.add
NewOps_NoAdd(id, doc) == <<>>

\* the store calls of the new-file branch and of the modified-file branch
NewOps(id, doc) == <<AddOp(doc)>>
ModifiedOps(id, doc) == <<DiscardOp(id), AddOp(doc)>>

\* mutant: the mtime of an added document is not recorded
ApplyDoc_NoMtime(s, doc, idx) ==
  [s EXCEPT !.index = idx, !.documents = @ \cup {doc.id}]

\* documents.set(doc.id, doc); fileMtimes[doc.id] = doc.modified
ApplyDoc(s, doc, idx) ==
  [s EXCEPT !.index = idx, !.documents = @ \cup {doc.id},
            !.fileMtimes = MapPut(@, doc.id, doc.modified)]

\* mutant: lastBuilt and fileCount are bumped by every update
FinishUpdate_AlwaysBumps(s, added, updated, removed, now) ==
  [s EXCEPT !.lastBuilt = now, !.fileCount = Cardinality(s.documents)]

\* the end of updateIndex: bump lastBuilt and fileCount after any change
FinishUpdate(s, added, updated, removed, now) ==
  IF added > 0 \/ updated > 0 \/ removed > 0
    THEN [s EXCEPT !.lastBuilt = now, !.fileCount = Cardinality(s.documents)]
    ELSE s

\* where getSearchIndex goes once updateIndex returned
AfterUpdate(why) == IF why = "loaded" THEN "save" ELSE "returned"

\* the loop moves on to the next listed file, or updateIndex ends
Settle(p, pr, s) ==
  LET done == pr.todo = <<>>
      pr2 == [pr EXCEPT !.branch = "",
                        !.pc = IF done THEN AfterUpdate(pr.why) ELSE "upd_stat"]
      s2 == IF done
              THEN FinishUpdate(s, pr.added, pr.updated, pr.removed, nCalls)
              ELSE s
  IN  /\ proc' = [proc EXCEPT ![p] = pr2]
      /\ heap' = [heap EXCEPT ![pr.ref] = s2]

\* an exception leaves updateIndex and getSearchIndex
Throw(p, pr, s) ==
  /\ proc' = [proc EXCEPT ![p] = [pr EXCEPT !.pc = "failed"]]
  /\ heap' = [heap EXCEPT ![pr.ref] = s]

\* p's update changes its state object in this step, after a search ran on it
Straddle(p) ==
  [watched EXCEPT ![p] = IF @ = "seen" /\ heap' # heap THEN "straddled" ELSE @]

\* updateIndex after getVaultFiles: the deletion loop
UpdList(p) ==
  /\ proc[p].pc = "upd_list"
  /\ LET listing == getVaultFiles(proc[p].cfg)
         cur == SeqToSet(listing)
         s == heap[proc[p].ref]
         gone == SelectSeq(FileOrder, LAMBDA id : id \in RemovedIds(s, cur))
         r == DeleteLoop(s, gone, 0)
         pr == [proc[p] EXCEPT !.currentFiles = cur, !.todo = listing,
                               !.removed = r.removed]
     IN  /\ misuse' = (misuse \/ ~r.ok)
         /\ IF r.ok THEN Settle(p, pr, r.state) ELSE Throw(p, pr, r.state)
  /\ UNCHANGED <<text, files, config, disk, cacheRef, nCalls, nEvents, watched>>

\* updateIndex after stat(file): new, modified or unchanged
UpdStat(p) ==
  /\ proc[p].pc = "upd_stat"
  /\ LET id == Head(proc[p].todo)
         s == heap[proc[p].ref]
     IN  IF StatFails(proc[p].cfg, id)
           THEN Throw(p, proc[p], s)
         ELSE IF IsNew(s, id)
           THEN /\ proc' = [proc EXCEPT ![p].pc = "upd_build", ![p].branch = "new"]
                /\ UNCHANGED heap
         ELSE IF IsModified(s, id, Vault(proc[p].cfg)[id].mtime)
           THEN /\ proc' = [proc EXCEPT ![p].pc = "upd_build",
                                        ![p].branch = "modified"]
                /\ UNCHANGED heap
         ELSE Settle(p, [proc[p] EXCEPT !.todo = Tail(@)], s)
  /\ watched' = Straddle(p)
  /\ UNCHANGED <<text, files, config, disk, cacheRef, nCalls, nEvents, misuse>>

\* updateIndex after buildDocument(file): add, or discard and add
UpdBuild(p) ==
  /\ proc[p].pc = "upd_build"
  /\ LET id == Head(proc[p].todo)
         s == heap[proc[p].ref]
         null == buildDocumentFails(proc[p].cfg, id)
         doc == buildDocument(proc[p].cfg, id)
         isNew == proc[p].branch = "new"
         r == IF null THEN [index |-> s.index, ok |-> TRUE]
              ELSE RunOps(s.index, IF isNew THEN NewOps(id, doc)
                                            ELSE ModifiedOps(id, doc))
         pr == [proc[p] EXCEPT
                  !.todo = Tail(@),
                  !.added = IF ~null /\ isNew THEN @ + 1 ELSE @,
                  !.updated = IF ~null /\ ~isNew THEN @ + 1 ELSE @]
     IN  /\ misuse' = (misuse \/ ~r.ok)
         /\ IF null THEN Settle(p, pr, s)
            ELSE IF r.ok THEN Settle(p, pr, ApplyDoc(s, doc, r.index))
            ELSE Throw(p, proc[p], [s EXCEPT !.index = r.index])
  /\ watched' = Straddle(p)
  /\ UNCHANGED <<text, files, config, disk, cacheRef, nCalls, nEvents>>

\* ------------------------------------------------------------ searchLocal
Changed(pr) == pr.added + pr.updated + pr.removed

\* index.search on the index getSearchIndex returned
SearchStep(p) ==
  /\ proc[p].pc = "returned"
  /\ \E term \in Terms :
       proc' = [proc EXCEPT ![p].pc = "searched",
                            ![p].hits = Search(heap[proc[p].ref].index, term)]
  /\ watched' = [q \in Procs |->
                   IF /\ watched[q] = "no"
                      /\ q # p
                      /\ proc[q].ref = proc[p].ref
                      /\ proc[q].pc \in UpdatePcs
                      /\ Changed(proc[q]) > 0
                     THEN "seen" ELSE watched[q]]
  /\ UNCHANGED <<text, files, config, disk, heap, cacheRef, nCalls, nEvents, misuse>>

\* the caller is done with the call, or with its exception
Finish(p) ==
  /\ proc[p].pc \in {"returned", "searched", "failed", "done"}
  /\ proc' = [proc EXCEPT ![p] = IdleProc]
  /\ heap' = Collect(heap, cacheRef, proc')
  /\ watched' = [watched EXCEPT ![p] = "no"]
  /\ UNCHANGED <<text, files, config, disk, cacheRef, nCalls, nEvents, misuse>>

\* clearIndexCache(vaultName): indexCache.delete
clearIndexCache(anytime) ==
  /\ cacheRef # NoObj
  /\ anytime \/ \A q \in Procs : proc[q].pc = "idle"
  /\ cacheRef' = NoObj
  /\ heap' = Collect(heap, cacheRef', proc)
  /\ UNCHANGED <<text, files, config, disk, proc, nCalls, nEvents, misuse, watched>>

\* ------------------------------------------------- the query, in detail
\* Words are sequences of letters, so that prefixes and edit distances are
\* computed and not looked up.
Cat == <<"c", "a", "t">>
Pig == <<"p", "i", "g">>
Zoo == <<"z", "o", "o">>
Sub == <<"s", "u", "b">>
Y2024 == <<"2", "0", "2", "4">>
\* query words: a word of the vault, a typo of it, a proper prefix of it
Cot == <<"c", "o", "t">>
Ca == <<"c", "a">>
QueryTerms == {Cat, Cot, Ca}

\* the fields of createMiniSearch, in their order
Fields == <<"title", "content", "tags", "folder">>

\* dirname of the vault-relative path ("" at the vault root), as letters
FolderOf(id) == IF id = "sub/b.md" THEN Sub ELSE <<>>

\* the notes the query study draws from: "t" has the word cat in its title
\* only, "b" and "g" in their body only; "g" carries the tag Zoo, and "n" the
\* tag 2024, which JSON.parse of `tags: [2024]` keeps a number
SearchContents == {"t", "b", "g", "n"}

\* the processed terms of one field of a document
FieldTerms(doc, field) ==
  CASE field = "title" ->
         (IF doc.content = "t" THEN {Cat}
          ELSE IF doc.content \in {"b", "g", "n"} THEN {Pig} ELSE {})
    [] field = "content" ->
         (IF doc.content = "t" THEN {Pig}
          ELSE IF doc.content \in {"b", "g", "n"} THEN {Cat} ELSE {})
    [] field = "tags" ->
         (IF doc.content = "g" THEN {Zoo}
          ELSE IF doc.content = "n" THEN {Y2024} ELSE {})
    [] OTHER -> (IF FolderOf(doc.id) = <<>> THEN {} ELSE {FolderOf(doc.id)})

\* storeFields: the tags kept with the document, as parseFrontmatter gave them
StoredTags(doc) ==
  CASE doc.content = "g" -> {[type |-> "string", text |-> "Zoo"]}
    [] doc.content = "n" -> {[type |-> "number", text |-> "2024"]}
    [] OTHER -> {}

\* String.prototype.toLowerCase on the tag texts in use
ToLowerCase(s) == IF s \in {"Zoo", "ZOO", "zoo"} THEN "zoo" ELSE s

\* String.prototype.startsWith
StartsWith(s, prefix) ==
  /\ Len(prefix) <= Len(s)
  /\ SubSeq(s, 1, Len(prefix)) = prefix

Min2(a, b) == IF a < b THEN a ELSE b

\* the edit distance of two words is at most d (substitution, deletion,
\* insertion of one letter)
RECURSIVE WithinDistance(_, _, _)
WithinDistance(a, b, d) ==
  IF a = <<>> THEN Len(b) <= d
  ELSE IF b = <<>> THEN Len(a) <= d
  ELSE IF Head(a) = Head(b) THEN WithinDistance(Tail(a), Tail(b), d)
  ELSE /\ d > 0
       /\ \/ WithinDistance(Tail(a), Tail(b), d - 1)
          \/ WithinDistance(Tail(a), b, d - 1)
          \/ WithinDistance(a, Tail(b), d - 1)

\* Math.round(term.length * fuzzy), fuzzy in tenths (2 for 0.2, 0 for off)
MaxDistance(term, fuzzy) == (Len(term) * fuzzy + 5) \div 10

\* how a query term meets an indexed term under the options in force
MatchKind(q, term, so) ==
  IF q = term THEN "exact"
  ELSE IF so.prefix /\ StartsWith(term, q) THEN "prefix"
  ELSE IF so.fuzzy > 0 /\ WithinDistance(q, term, MaxDistance(q, so.fuzzy))
    THEN "fuzzy"
  ELSE "none"

\* the weight of a match in the score, in fortieths: 1 for an exact match,
\* 0.375 for a prefix match, 0.45 for a fuzzy match
Weight(kind) ==
  CASE kind = "exact" -> 40
    [] kind = "prefix" -> 15
    [] kind = "fuzzy" -> 18
    [] OTHER -> 0

\* the boost of a field, in halves: createMiniSearch gives title 3, tags 2,
\* folder 1.5, content 1; an index without searchOptions boosts nothing
Boost(origin, field) ==
  IF origin # "configured" THEN 2
  ELSE CASE field = "title" -> 6
         [] field = "tags" -> 4
         [] field = "folder" -> 3
         [] OTHER -> 2

\* the query defaults of the index object: createMiniSearch's searchOptions,
\* or the library's (no prefix, no fuzzy) when none were given
IndexDefaults(origin) ==
  IF origin = "configured" THEN [fuzzy |-> 2, prefix |-> TRUE]
  ELSE [fuzzy |-> 0, prefix |-> FALSE]

\* mutant: exact leaves the caller's fuzzy and prefix in force
CallerOptions_ExactIgnored(opts) ==
  [fuzzySet |-> opts.fuzzy # "false", fuzzy |-> 2,
   prefixSet |-> TRUE, prefix |-> opts.prefix # "false"]

\* the searchOptions searchLocal hands to index.search: exact sets both keys
\* off; otherwise fuzzy is set to 0.2 unless options.fuzzy is false (then the
\* key is left out), and prefix is set to options.prefix !== false
CallerOptions(opts) ==
  IF opts.exact
    THEN [fuzzySet |-> TRUE, fuzzy |-> 0, prefixSet |-> TRUE, prefix |-> FALSE]
    ELSE [fuzzySet |-> opts.fuzzy # "false", fuzzy |-> 2,
          prefixSet |-> TRUE, prefix |-> opts.prefix # "false"]

\* index.search merges the call's options over the index's defaults
MergedOptions(origin, opts) ==
  LET so == CallerOptions(opts)
      d == IndexDefaults(origin)
  IN  [fuzzy |-> IF so.fuzzySet THEN so.fuzzy ELSE d.fuzzy,
       prefix |-> IF so.prefixSet THEN so.prefix ELSE d.prefix]

RECURSIVE TermsScore(_, _, _)
TermsScore(terms, q, so) ==
  IF terms = {} THEN 0
  ELSE LET term == CHOOSE x \in terms : TRUE
       IN  Weight(MatchKind(q, term, so)) + TermsScore(terms \ {term}, q, so)

FieldScore(doc, field, q, so, origin) ==
  Boost(origin, field) * TermsScore(FieldTerms(doc, field), q, so)

\* the score of a document: its matched terms, field by field, boosted
Score(doc, q, so, origin) ==
  FieldScore(doc, "title", q, so, origin) + FieldScore(doc, "content", q, so, origin)
    + FieldScore(doc, "tags", q, so, origin) + FieldScore(doc, "folder", q, so, origin)

\* the matching documents in the order the query meets them: field by field,
\* and within a field in the order of the index
RECURSIVE Discovered(_, _, _, _)
Discovered(idx, fields, q, so) ==
  IF fields = <<>> THEN <<>>
  ELSE LET rest == Discovered(idx, Tail(fields), q, so)
           here == SelectSeq(FileOrder, LAMBDA id :
                     /\ id \in DOMAIN idx
                     /\ TermsScore(FieldTerms(idx[id], Head(fields)), q, so) > 0)
       IN  here \o SelectSeq(rest, LAMBDA id : id \notin SeqToSet(here))

\* Array.prototype.sort with byScore: descending, equal scores keep their order
RECURSIVE InsertByScore(_, _)
InsertByScore(r, sorted) ==
  IF sorted = <<>> THEN <<r>>
  ELSE IF r.score > Head(sorted).score THEN <<r>> \o sorted
  ELSE <<Head(sorted)>> \o InsertByScore(r, Tail(sorted))

RECURSIVE SortByScore(_)
SortByScore(rs) ==
  IF rs = <<>> THEN <<>>
  ELSE LET n == Len(rs)
       IN  InsertByScore(rs[n], SortByScore(SubSeq(rs, 1, n - 1)))

\* the options a caller may pass: fuzzy and prefix absent, false or true;
\* folder and tag absent ("" is absent to `if (options.folder)`) or given;
\* limit absent or a number
Su == <<"s", "u">>
QueryOptions ==
  [exact : BOOLEAN, fuzzy : {"undefined", "false", "true"},
   prefix : {"undefined", "false"}, folder : {<<>>, Su}, tag : {"", "ZOO"},
   limit : {<<>>, <<0>>, <<1>>}, query : QueryTerms]

\* options.limit || 10
Limit(opts) ==
  IF opts.limit = <<>> \/ opts.limit[1] = 0 THEN DEFAULT_LIMIT ELSE opts.limit[1]

\* the folder filter: the stored folder starts with the folder asked for
FolderFilter(doc, opts) == StartsWith(FolderOf(doc.id), opts.folder)

\* tags.map(t => t.toLowerCase()) throws on a stored tag that is no string
TagFilterThrows(doc) == \E tg \in StoredTags(doc) : tg.type # "string"

\* the tag filter: a stored tag equals the tag asked for, both in lower case
TagFilter(doc, opts) ==
  \E tg \in StoredTags(doc) : ToLowerCase(tg.text) = ToLowerCase(opts.tag)

\* searchOptions.filter as searchLocal composes it
PassesFilter(doc, opts) ==
  /\ opts.tag # "" => TagFilter(doc, opts)
  /\ opts.folder # <<>> => FolderFilter(doc, opts)

\* index.search(query, searchOptions): every matching document is shown to
\* the filter, the kept ones are sorted by score
IndexSearch(s, opts) ==
  LET so == MergedOptions(s.searchOptions, opts)
      found == Discovered(s.index, Fields, opts.query, so)
      kept == SelectSeq(found, LAMBDA id : PassesFilter(s.index[id], opts))
  IN  IF opts.tag # "" /\ \E i \in 1..Len(found) : TagFilterThrows(s.index[found[i]])
        THEN [ok |-> FALSE, ranked |-> <<>>]
        ELSE [ok |-> TRUE,
              ranked |-> SortByScore(
                [i \in 1..Len(kept) |->
                   [id |-> kept[i],
                    score |-> Score(s.index[kept[i]], opts.query, so,
                                    s.searchOptions)]])]

\* searchResults.slice(0, limit)
Slice(rs, limit) == SubSeq(rs, 1, Min2(limit, Len(rs)))

\* searchLocal from the return of getSearchIndex to the first readFile of the
\* snippet loop (or to its return, or to the exception of index.search)
SearchLocal(p) ==
  /\ proc[p].pc = "returned"
  /\ \E opts \in QueryOptions :
       LET r == IndexSearch(heap[proc[p].ref], opts)
           top == Slice(r.ranked, Limit(opts))
       IN  proc' = [proc EXCEPT
                      ![p].opts = <<opts>>,
                      ![p].ranked = r.ranked,
                      ![p].results = <<>>,
                      ![p].todo = [i \in 1..Len(top) |-> top[i].id],
                      ![p].pc = IF ~r.ok THEN "failed"
                                ELSE IF top = <<>> THEN "done" ELSE "snippet"]
  /\ UNCHANGED <<text, files, config, disk, heap, cacheRef, nCalls, nEvents, misuse,
                 watched>>

\* readFile or stat of the hit's file throws
SnippetFails(path, id) ==
  \/ id \notin DOMAIN Vault(path)
  \/ ~Vault(path)[id].readable

\* mutant: a hit is pushed whether or not its file was read
SnippetOutcome_KeepsAll(rs, hit, fails) == Append(rs, hit)

\* one turn of the snippet loop: push the hit, or `continue` from the catch
SnippetOutcome(rs, hit, fails) == IF fails THEN rs ELSE Append(rs, hit)

HitOf(ranked, id) == CHOOSE r \in SeqToSet(ranked) : r.id = id

Snippet(p) ==
  /\ proc[p].pc = "snippet"
  /\ LET id == Head(proc[p].todo)
         rest == Tail(proc[p].todo)
     IN  proc' = [proc EXCEPT
                    ![p].results = SnippetOutcome(proc[p].results,
                                                  HitOf(proc[p].ranked, id),
                                                  SnippetFails(proc[p].cfg, id)),
                    ![p].todo = rest,
                    ![p].pc = IF rest = <<>> THEN "done" ELSE "snippet"]
  /\ UNCHANGED <<text, files, config, disk, heap, cacheRef, nCalls, nEvents, misuse,
                 watched>>

\* ------------------------------------------------------ the text functions
\* A string is a sequence of characters.  The characters in use: Latin letters
\* in both cases, the space, and CJK characters named by their code points:
\* U+4E2D and U+7684 of the range U+4E00-U+9FA5 (U+7684 is a stop word),
\* U+3400 of the range U+3400-U+4DBF.
LatinLower == {"a", "n", "x"}
LatinUpper == {"A", "N", "X"}
MainCJK == {"U4E2D", "U7684"}
ExtACJK == {"U3400"}
Boundary == {" "}

\* the characters processTerm and tokenize are tried on
TermChars == {"a", "n", "x", "A", "N", "U7684", "U4E2D"}
TextChars == {"x", "X", " ", "U4E2D", "U7684", "U3400"}

SeqsUpTo(S, n) == UNION {[1..k -> S] : k \in 0..n}

\* String.prototype.toLowerCase
CharToLower(c) ==
  CASE c = "A" -> "a"
    [] c = "N" -> "n"
    [] c = "X" -> "x"
    [] OTHER -> c

LowerText(s) == [i \in 1..Len(s) |-> CharToLower(s[i])]

\* the words of processTerm's stopWords the characters can spell
stopWords == {<<"a">>, <<"a", "n">>, <<"U7684">>}

\* processTerm: <<>> for null, else the term it returns
processTerm(term) ==
  IF term = <<>> THEN <<>>
  ELSE IF Len(term) = 1 /\ term[1] \in LatinLower THEN <<>>
  ELSE IF term \in stopWords THEN <<>>
  ELSE <<LowerText(term)>>

\* split(WORD_BOUNDARY_REGEX) and filter(t => t.length > 0)
RECURSIVE SplitWords(_, _)
SplitWords(s, cur) ==
  LET flush == IF cur = <<>> THEN <<>> ELSE <<cur>> IN
  IF s = <<>> THEN flush
  ELSE IF Head(s) \in Boundary THEN flush \o SplitWords(Tail(s), <<>>)
  ELSE SplitWords(Tail(s), Append(cur, Head(s)))

\* /^[\u4e00-\u9fa5]+$/.test(t)
OnlyMainCJK(w) == w # <<>> /\ \A i \in 1..Len(w) : w[i] \in MainCJK

\* the number of characters of [\u4e00-\u9fa5] the string starts with
RECURSIVE RunLength(_)
RunLength(s) ==
  IF s = <<>> \/ Head(s) \notin MainCJK THEN 0 ELSE 1 + RunLength(Tail(s))

\* text.match(/[\u4e00-\u9fa5]{2,4}/g): greedy, from left to right
RECURSIVE chineseGroups(_)
chineseGroups(s) ==
  IF s = <<>> THEN <<>>
  ELSE LET n == RunLength(s)
           k == Min2(n, 4)
       IN  IF n >= 2
             THEN <<SubSeq(s, 1, k)>> \o chineseGroups(SubSeq(s, k + 1, Len(s)))
             ELSE chineseGroups(Tail(s))

\* mutant: the word tokens are stemmed (each loses its last character), so
\* that a token is not a token of itself
englishTokens_Stemmed(s) ==
  LET ws == SelectSeq(SplitWords(LowerText(s), <<>>), LAMBDA w : ~OnlyMainCJK(w))
  IN  [i \in 1..Len(ws) |-> SubSeq(ws[i], 1, Len(ws[i]) - 1)]

\* the word tokens of tokenize: split of the lowercased text, less the words
\* made of [\u4e00-\u9fa5] only
englishTokens(s) ==
  SelectSeq(SplitWords(LowerText(s), <<>>), LAMBDA w : ~OnlyMainCJK(w))

\* text.match(CJK_REGEX)
chineseChars(s) ==
  LET cs == SelectSeq(s, LAMBDA c : c \in MainCJK \cup ExtACJK)
  IN  [i \in 1..Len(cs) |-> <<cs[i]>>]

tokenize(s) ==
  IF s = <<>> THEN <<>>
  ELSE englishTokens(s) \o chineseChars(s) \o chineseGroups(s)

\* the terms MiniSearch keeps of a field or of a query: tokenize, then
\* processTerm on each token, null dropped
RECURSIVE ProcessAll(_)
ProcessAll(tokens) ==
  IF tokens = <<>> THEN <<>>
  ELSE processTerm(Head(tokens)) \o ProcessAll(Tail(tokens))

\* index.search(query) on an index whose terms are `terms`: some term of the
\* query matches some term of the index under the index's query defaults
QueryHits(q, terms) ==
  \E i \in 1..Len(ProcessAll(tokenize(q))), j \in 1..Len(terms) :
    MatchKind(ProcessAll(tokenize(q))[i], terms[j],
              IndexDefaults("configured")) # "none"

\* processTerm(term)
ProcessTermStep ==
  /\ text.phase = "term"
  /\ text' = [text EXCEPT !.phase = "processed", !.out = processTerm(text.input)]
  /\ UNCHANGED <<files, config, disk, heap, cacheRef, proc, nCalls, nEvents,
                 misuse, watched>>

\* tokenize(title), as index.add calls it on the title field
TokenizeStep ==
  /\ text.phase = "title"
  /\ text' = [text EXCEPT !.phase = "tokenized", !.tokens = tokenize(text.input)]
  /\ UNCHANGED <<files, config, disk, heap, cacheRef, proc, nCalls, nEvents,
                 misuse, watched>>

\* index.add: processTerm on each token; what is left is indexed
AddStep ==
  /\ text.phase = "tokenized"
  /\ text' = [text EXCEPT !.phase = "added", !.out = ProcessAll(text.tokens)]
  /\ UNCHANGED <<files, config, disk, heap, cacheRef, proc, nCalls, nEvents,
                 misuse, watched>>

\* index.search(t) for a term t of the title
SearchTermStep ==
  /\ text.phase = "added"
  /\ \E j \in 1..Len(text.out) :
       text' = [text EXCEPT !.phase = "searched", !.query = text.out[j],
                            !.hit = QueryHits(text.out[j], text.out)]
  /\ UNCHANGED <<files, config, disk, heap, cacheRef, proc, nCalls, nEvents,
                 misuse, watched>>

\* ------------------------------------------------------- specifications
Environment(evCap) ==
  \/ WriteFile(evCap)
  \/ DeleteFile(evCap)
  \/ MakeUnreadable(evCap)
  \/ SetVaultPath(evCap)
  \/ CorruptSnapshot(evCap)
  \/ OtherVersionSnapshot(evCap)

Call(p, callCap) ==
  \/ Begin(p, callCap)
  \/ Load(p)
  \/ BuildList(p)
  \/ BuildDoc(p)
  \/ Save(p)
  \/ UpdList(p)
  \/ UpdStat(p)
  \/ UpdBuild(p)
  \/ SearchStep(p)
  \/ Finish(p)

\* one call at a time: a call is awaited before the next one is made
Next ==
  \/ Environment(MaxFsEvents)
  \/ Call(1, MaxCalls)
  \/ clearIndexCache(FALSE)

Spec == Init /\ [][Next]_vars

\* no caller is due to resume: searchLocal resumes from its await of
\* getSearchIndex in the turn in which getSearchIndex returned, before any other
\* completion is handled
NoneDue == \A q \in Procs : proc[q].pc # "returned"

ConcEvents ==
  \/ NoneDue /\ WriteFile(MaxConcFsEvents)
  \/ NoneDue /\ DeleteFile(MaxConcFsEvents)
  \/ NoneDue /\ MakeUnreadable(MaxConcFsEvents)

ConcCall(p) ==
  \/ NoneDue /\ Begin(p, MaxConcCalls)
  \/ NoneDue /\ Load(p)
  \/ NoneDue /\ BuildList(p)
  \/ NoneDue /\ BuildDoc(p)
  \/ NoneDue /\ Save(p)
  \/ NoneDue /\ UpdList(p)
  \/ NoneDue /\ UpdStat(p)
  \/ NoneDue /\ UpdBuild(p)
  \/ SearchStep(p)
  \/ (NoneDue \/ proc[p].pc = "returned") /\ Finish(p)

\* two callers of the same process, their calls overlapping
NextConc ==
  \/ ConcEvents
  \/ \E p \in Procs : ConcCall(p)
  \/ NoneDue /\ clearIndexCache(TRUE)

SpecConc == Init /\ [][NextConc]_vars

\* ------------------------------------------------------ shared by the claims
\* p's own step (an event of the environment moves neither)
Stepped(p) == proc'[p].pc # proc[p].pc \/ proc'[p].todo # proc[p].todo

\* getSearchIndex returns to its caller in this step
ReturnStep(p) == proc[p].pc # "returned" /\ proc'[p].pc = "returned"

\* what a build from scratch makes of the vault as it stands
ReadableIds(path) == {id \in DOMAIN Vault(path) : Vault(path)[id].readable}
FullIndex(path) == [id \in ReadableIds(path) |-> buildDocument(path, id)]
FullMtimes(path) == [id \in ReadableIds(path) |-> Vault(path)[id].mtime]
SameAsRebuild(s, path) ==
  /\ s.index = FullIndex(path)
  /\ s.fileMtimes = FullMtimes(path)
  /\ s.fileCount = Cardinality(ReadableIds(path))
  /\ s.version = INDEX_VERSION
  /\ s.vaultPath = path

\* ------------------------------------------------------- the query study
\* The notes of the vault when the index was made: each absent, or readable
\* with one of the contents of the study.
SearchVaults ==
  UNION {[S -> [mtime : {1}, content : SearchContents, readable : {TRUE}]] :
         S \in SUBSET FileIds}

\* the state buildFullIndex leaves for the vault as it stands
FreshState ==
  [index |-> FullIndex("v1"), documents |-> ReadableIds("v1"),
   version |-> INDEX_VERSION, vaultPath |-> "v1", lastBuilt |-> 1,
   fileCount |-> Cardinality(ReadableIds("v1")),
   fileMtimes |-> FullMtimes("v1"), searchOptions |-> "configured"]

\* getSearchIndex has just returned the index of an unchanged vault: built in
\* this process, or restored from the snapshot an earlier process saved
InitSearch ==
  /\ files \in SearchVaults
  /\ config = "v1"
  /\ disk = SnapshotOf(FreshState)
  /\ \E restored \in BOOLEAN :
       /\ heap = [o \in ObjIds |->
                    IF o # "o1" THEN NullState
                    ELSE IF restored THEN LoadedState(disk) ELSE FreshState]
       /\ proc = [p \in Procs |->
                    IF p # 1 THEN IdleProc
                    ELSE [IdleProc EXCEPT
                            !.pc = "returned", !.ref = "o1",
                            !.why = IF restored THEN "loaded" ELSE "noSnapshot",
                            !.currentFiles = DOMAIN files]]
  /\ cacheRef = "o1"
  /\ nCalls = 1
  /\ nEvents = 0
  /\ misuse = FALSE
  /\ watched = [p \in Procs |-> "no"]
  /\ text = NoText

\* index.search follows the return of getSearchIndex in the same turn; the
\* file system moves at the awaits of the snippet loop, and between calls
NextSearch ==
  \/ SearchLocal(1)
  \/ Snippet(1)
  \/ NoneDue /\ DeleteFile(MaxSearchFsEvents)
  \/ NoneDue /\ MakeUnreadable(MaxSearchFsEvents)
  \/ proc[1].pc # "returned" /\ Finish(1)

SpecSearch == InitSearch /\ [][NextSearch]_vars

\* ------------------------------------------------- the warm process
\* A process whose first getSearchIndex call has built, registered and saved
\* the index of the vault, and is over; the vault then moves on (more than
\* once) while further calls update the index.
InitWarm ==
  /\ files \in InitVaults
  /\ config = "v1"
  /\ disk = SnapshotOf(FreshState)
  /\ heap = [o \in ObjIds |-> IF o = "o1" THEN FreshState ELSE NullState]
  /\ cacheRef = "o1"
  /\ proc = [p \in Procs |-> IdleProc]
  /\ nCalls = 1
  /\ nEvents = 0
  /\ misuse = FALSE
  /\ watched = [p \in Procs |-> "no"]
  /\ text = NoText

WarmEvents ==
  \/ WriteFile(MaxWarmFsEvents)
  \/ DeleteFile(MaxWarmFsEvents)
  \/ MakeUnreadable(MaxWarmFsEvents)

\* the calls of a caller of getSearchIndex; the name stays registered, so no
\* call comes to loadIndexCache
WarmCall(p) ==
  \/ Begin(p, MaxWarmCalls)
  \/ BuildList(p)
  \/ BuildDoc(p)
  \/ Save(p)
  \/ UpdList(p)
  \/ UpdStat(p)
  \/ UpdBuild(p)
  \/ Finish(p)

NextWarm ==
  \/ WarmEvents
  \/ WarmCall(1)

SpecWarm == InitWarm /\ [][NextWarm]_vars

\* ------------------------------------------------- the text study
\* a term handed to processTerm, or a title handed to index.add
InitText ==
  /\ files = EmptyMap
  /\ config = "v1"
  /\ disk = NoSnapshot
  /\ heap = [o \in ObjIds |-> NullState]
  /\ cacheRef = NoObj
  /\ proc = [p \in Procs |-> IdleProc]
  /\ nCalls = 0
  /\ nEvents = 0
  /\ misuse = FALSE
  /\ watched = [p \in Procs |-> "no"]
  /\ \/ \E term \in SeqsUpTo(TermChars, MaxTermLen) :
          text = [NoText EXCEPT !.phase = "term", !.input = term]
     \/ \E title \in SeqsUpTo(TextChars, MaxTextLen) :
          text = [NoText EXCEPT !.phase = "title", !.input = title]

NextText ==
  \/ ProcessTermStep
  \/ TokenizeStep
  \/ AddStep
  \/ SearchTermStep

SpecText == InitText /\ [][NextText]_vars

\* ------------------------------------------------------------------ claims

\* C1: once a file is gone from the listing an update works from, the index
\* that getSearchIndex returns (in-memory path or load-from-disk path) holds
\* neither its id nor its recorded mtime, and no search on it returns the id.
C1_DeletionCorrect ==
  [][\A p \in Procs :
       /\ (ReturnStep(p) /\ proc'[p].why \in {"memory", "loaded"}) =>
            LET s == heap'[proc'[p].ref] IN
            \A id \in FileIds \ proc'[p].currentFiles :
              /\ id \notin DOMAIN s.index
              /\ id \notin DOMAIN s.fileMtimes
              /\ \A t \in Terms : id \notin Search(s.index, t)
       /\ (proc[p].pc = "returned" /\ proc'[p].pc = "searched") =>
            proc'[p].hits \cap (FileIds \ proc[p].currentFiles) = {}]_vars

\* C1 witness: a search ran on an index loaded from disk from which the update
\* had discarded a file.
C1_Witness ==
  \E p \in Procs :
    /\ proc[p].pc = "searched"
    /\ proc[p].why = "loaded"
    /\ proc[p].removed > 0
    /\ proc[p].hits # {}

\* C2 (as claimed): a listed file of the vault the state was built from, whose
\* mtime on disk is strictly greater than its recorded mtime, takes the
\* modified-file branch; once its fresh extraction is applied,
\* the index holds the fresh document, queries for its words return it,
\* queries for any other word do not, and the recorded mtime is the new one.
C2_ModifiedFileUpdated ==
  [][\A p \in Procs :
       LET id == Head(proc[p].todo)
           s == heap[proc[p].ref]
           v == Vault(proc[p].cfg)
           s2 == heap'[proc[p].ref]
       IN
       /\ (/\ proc[p].pc = "upd_stat" /\ Stepped(p)
           /\ s.vaultPath = proc[p].cfg
           /\ id \in DOMAIN v /\ id \in DOMAIN s.fileMtimes
           /\ v[id].mtime > s.fileMtimes[id])
          => (proc'[p].pc = "upd_build" /\ proc'[p].branch = "modified")
       /\ (/\ proc[p].pc = "upd_build" /\ Stepped(p)
           /\ proc[p].branch = "modified"
           /\ ~buildDocumentFails(proc[p].cfg, id))
          => /\ id \in DOMAIN s2.index
             /\ s2.index[id] = buildDocument(proc[p].cfg, id)
             /\ s2.fileMtimes[id] = v[id].mtime
             /\ \A t \in TermsOf(v[id].content) : id \in Search(s2.index, t)
             /\ \A t \in Terms \ TermsOf(v[id].content) :
                  id \notin Search(s2.index, t)
             /\ proc'[p].updated = proc[p].updated + 1]_vars

\* C3 (as claimed): whenever getSearchIndex returns after a full build, or
\* after an update that added, removed or updated documents, the snapshot on
\* disk holds the id->mtime map and the index of the in-memory state.
C3_SnapshotWrittenOnEveryPath ==
  [][\A p \in Procs :
       (/\ ReturnStep(p)
        /\ \/ proc'[p].why \notin {"memory", "loaded"}
           \/ Changed(proc'[p]) > 0)
       => /\ disk'.kind = "ok"
          /\ disk'.fileMtimes = heap'[proc'[p].ref].fileMtimes
          /\ disk'.indexData = heap'[proc'[p].ref].index]_vars

\* C4 (as claimed): whenever getSearchIndex returns, the cache's fileCount is
\* the number of documents in the index, the number of keys of the id->mtime
\* map.
C4_FileCountIsDocumentCount ==
  [][\A p \in Procs :
       ReturnStep(p) =>
         LET s == heap'[proc'[p].ref] IN
         /\ s.fileCount = Cardinality(DOMAIN s.fileMtimes)
         /\ s.fileCount = Cardinality(DOMAIN s.index)]_vars

\* C5 (as claimed): over any sequence of getSearchIndex calls and of additions, rewrites
\* and deletions of files, add is never called with an id the index holds and
\* discard never with an id it does not hold.
C5_StorePreconditionsKept == ~misuse

\* C6: a snapshot whose version differs from INDEX_VERSION is rejected without
\* an error and without anything of it reaching memory; the call goes on to a
\* full build and ends, when the vault did not change during the call, in the
\* state a build from scratch of the vault gives.
C6_VersionMismatchRebuilds ==
  [][\A p \in Procs :
       /\ (/\ proc[p].pc = "load" /\ Stepped(p)
           /\ disk.kind = "ok" /\ disk.version # INDEX_VERSION)
          => /\ proc'[p].pc = "build_list"
             /\ heap' = heap /\ cacheRef' = cacheRef
       /\ (proc[p].why = "badVersion" /\ Stepped(p)) => proc'[p].pc # "failed"
       /\ (ReturnStep(p) /\ proc'[p].why = "badVersion" /\ proc'[p].quiet)
          => SameAsRebuild(heap'[proc'[p].ref], proc'[p].cfg)]_vars

\* C6 witness: a call that met a snapshot of another version returned an index
\* of a vault that holds files.
C6_Witness ==
  \E p \in Procs :
    /\ proc[p].pc = "returned"
    /\ proc[p].why = "badVersion"
    /\ proc[p].quiet
    /\ DOMAIN heap[proc[p].ref].index # {}

\* C7: a snapshot whose recorded vault path is not the configured vault's
\* expanded path is rejected; the call goes on to a full build and ends, when
\* the vault did not change during the call, with the documents of the
\* configured vault only.
C7_PathMismatchRebuilds ==
  [][\A p \in Procs :
       /\ (/\ proc[p].pc = "load" /\ Stepped(p)
           /\ disk.kind = "ok" /\ disk.version = INDEX_VERSION
           /\ disk.vaultPath # proc[p].cfg)
          => /\ proc'[p].pc = "build_list"
             /\ heap' = heap /\ cacheRef' = cacheRef
       /\ (ReturnStep(p) /\ proc'[p].why = "badPath" /\ proc'[p].quiet)
          => SameAsRebuild(heap'[proc'[p].ref], proc'[p].cfg)]_vars

\* C7 witness: a call for one vault path met the snapshot of another path that
\* held documents, and returned.
C7_Witness ==
  \E p \in Procs :
    /\ proc[p].pc = "returned"
    /\ proc[p].why = "badPath"
    /\ proc[p].quiet
    /\ DOMAIN heap[proc[p].ref].index # {}

\* C8: a snapshot file that cannot be read or parsed is treated as absent: the
\* call raises no error, does a full build, and leaves a valid snapshot of the
\* state it built on disk.
C8_CorruptSnapshotRecovered ==
  [][\A p \in Procs :
       /\ (proc[p].pc = "load" /\ Stepped(p) /\ disk.kind = "corrupt")
          => /\ proc'[p].pc = "build_list"
             /\ heap' = heap /\ cacheRef' = cacheRef
       /\ (proc[p].why = "corrupt" /\ Stepped(p)) => proc'[p].pc # "failed"
       /\ (ReturnStep(p) /\ proc'[p].why = "corrupt")
          => /\ disk' = SnapshotOf(heap'[proc'[p].ref])
             /\ disk'.kind = "ok"
             /\ disk'.version = INDEX_VERSION
             /\ proc'[p].quiet => SameAsRebuild(heap'[proc'[p].ref], proc'[p].cfg)]_vars

\* C8 witness: a call that met a damaged snapshot returned, and the snapshot
\* on disk is valid again.
C8_Witness ==
  \E p \in Procs :
    /\ proc[p].pc = "returned"
    /\ proc[p].why = "corrupt"
    /\ disk.kind = "ok"
    /\ DOMAIN disk.indexData # {}

\* C9 (as claimed): the vault root exists and is readable throughout, so no
\* searchLocal/getSearchIndex call fails, whatever happens to the files.
C9_OnlyRootFailurePropagates == \A p \in Procs : proc[p].pc # "failed"

\* C10 (as claimed): under any interleaving of calls on the vault name, no
\* search runs on a state object while an update of that object is between its
\* first and its last mutation.
C10_QueryObservesSettledIndex == \A q \in Procs : watched[q] # "straddled"

\* C11: a call with forceRebuild goes straight to the full build, whatever is
\* in memory and on disk, and never through loadIndexCache or updateIndex; the
\* state it builds is a new object that takes the vault name's place in
\* indexCache, holds (when the vault did not change during the call) what a
\* build from scratch gives, and is the snapshot on disk when the call returns.
C11_ForceRebuildBypassesCaches ==
  [][\A p \in Procs :
       /\ (proc[p].pc = "idle" /\ proc'[p].why = "force")
          => /\ proc'[p].pc = "build_list"
             /\ proc'[p].ref = NoObj
             /\ heap' = heap /\ cacheRef' = cacheRef /\ disk' = disk
       /\ (proc[p].why = "force" /\ Stepped(p))
          => proc'[p].pc \notin UpdatePcs \cup {"load", "failed"}
       /\ (proc[p].why = "force" /\ proc[p].pc # "save" /\ proc'[p].pc = "save")
          => /\ cacheRef' = proc'[p].ref
             /\ cacheRef' # cacheRef
             /\ DOMAIN heap'[cacheRef'].index \subseteq proc'[p].currentFiles
       /\ (ReturnStep(p) /\ proc'[p].why = "force")
          => /\ cacheRef' = proc'[p].ref
             /\ disk' = SnapshotOf(heap'[proc'[p].ref])
             /\ proc'[p].quiet
                  => SameAsRebuild(heap'[proc'[p].ref], proc'[p].cfg)]_vars

\* C11 witness: a second call, with forceRebuild, returned an index of a vault
\* that holds files while the snapshot of the first call was on disk.
C11_Witness ==
  \E p \in Procs :
    /\ proc[p].pc = "returned"
    /\ proc[p].why = "force"
    /\ proc[p].quiet
    /\ nCalls >= 2
    /\ DOMAIN heap[proc[p].ref].index # {}

\* C12: in an update, a listed file with no recorded mtime takes the new-file
\* branch; if it can be extracted, the step that follows leaves its document
\* in the index under its id and its mtime in the id->mtime map; and when the
\* update completes with the vault unchanged during the call, every listed
\* file that can be extracted is in the index and in the id->mtime map.
C12_NewFileAdded ==
  [][\A p \in Procs :
       LET id == Head(proc[p].todo)
           s == heap[proc[p].ref]
           s2 == heap'[proc[p].ref]
       IN
       /\ (/\ proc[p].pc = "upd_stat" /\ Stepped(p)
           /\ id \in DOMAIN Vault(proc[p].cfg)
           /\ id \notin DOMAIN s.fileMtimes)
          => (proc'[p].pc = "upd_build" /\ proc'[p].branch = "new")
       /\ (/\ proc[p].pc = "upd_build" /\ Stepped(p)
           /\ proc[p].branch = "new"
           /\ id \notin DOMAIN s.fileMtimes
           /\ ~buildDocumentFails(proc[p].cfg, id))
          => /\ id \in DOMAIN s2.index
             /\ s2.index[id] = buildDocument(proc[p].cfg, id)
             /\ s2.fileMtimes[id] = Vault(proc[p].cfg)[id].mtime
             /\ proc'[p].added = proc[p].added + 1
       /\ (/\ proc[p].pc \in UpdatePcs
           /\ proc'[p].pc \in {"save", "returned"}
           /\ proc'[p].quiet)
          => \A f \in proc'[p].currentFiles :
               ~buildDocumentFails(proc[p].cfg, f)
                 => f \in DOMAIN s2.index /\ f \in DOMAIN s2.fileMtimes]_vars

\* C12 witness: an update of a state loaded from disk added a file, and the
\* search that followed returned it.
C12_Witness ==
  \E p \in Procs :
    /\ proc[p].pc = "searched"
    /\ proc[p].why = "loaded"
    /\ proc[p].added > 0
    /\ Cardinality(proc[p].hits) = 2

\* C13 (as claimed): in an update, a listed file whose mtime on disk equals its
\* recorded mtime is not extracted again, and its index entry and its recorded
\* mtime stay as they are; a step of the update that works on one file leaves
\* the entries of every other file as they are.
C13_UnchangedFilesUntouched ==
  [][\A p \in Procs :
       LET id == Head(proc[p].todo)
           s == heap[proc[p].ref]
           s2 == heap'[proc[p].ref]
       IN
       /\ (/\ proc[p].pc = "upd_stat" /\ Stepped(p)
           /\ id \in DOMAIN Vault(proc[p].cfg)
           /\ id \in DOMAIN s.fileMtimes
           /\ Vault(proc[p].cfg)[id].mtime = s.fileMtimes[id])
          => /\ proc'[p].pc # "upd_build"
             /\ s2.index = s.index
             /\ s2.fileMtimes = s.fileMtimes
       /\ (proc[p].pc \in {"upd_stat", "upd_build"} /\ Stepped(p))
          => \A f \in DOMAIN s.fileMtimes \ {id} :
               /\ f \in DOMAIN s2.fileMtimes
               /\ s2.fileMtimes[f] = s.fileMtimes[f]
               /\ (f \in DOMAIN s.index)
                    => (f \in DOMAIN s2.index /\ s2.index[f] = s.index[f])]_vars

\* C14: in a full build, a listed file whose read fails (it is gone, or cannot
\* be read) is left out of the index and of the id->mtime map, a file that is
\* read is put in both, what the build already holds stays, and the build
\* does not fail.
C14_BuildSkipsFailedFiles ==
  [][\A p \in Procs :
       (proc[p].pc = "build_doc" /\ Stepped(p)) =>
         LET id == Head(proc[p].todo)
             v == Vault(proc[p].cfg)
             bad == id \notin DOMAIN v \/ ~v[id].readable
             old == proc[p].loc
             new == IF proc'[p].pc = "build_doc" THEN proc'[p].loc
                    ELSE heap'[proc'[p].ref]
         IN  /\ proc'[p].pc \in {"build_doc", "save"}
             /\ bad => (new.index = old.index /\ new.fileMtimes = old.fileMtimes)
             /\ ~bad => /\ DOMAIN new.index = DOMAIN old.index \cup {id}
                        /\ new.index[id] = buildDocument(proc[p].cfg, id)
                        /\ new.fileMtimes[id] = v[id].mtime
             /\ \A f \in DOMAIN old.index :
                  /\ f \in DOMAIN new.index /\ new.index[f] = old.index[f]
                  /\ new.fileMtimes[f] = old.fileMtimes[f]]_vars

\* C14 witness: a build returned an index that holds one listed file and not
\* the other, which cannot be read.
C14_Witness ==
  \E p \in Procs, id \in FileIds :
    /\ proc[p].pc = "returned"
    /\ proc[p].why = "noSnapshot"
    /\ id \in proc[p].currentFiles
    /\ id \in DOMAIN files /\ ~files[id].readable
    /\ id \notin DOMAIN heap[proc[p].ref].index
    /\ DOMAIN heap[proc[p].ref].index # {}

\* the place of a document in the ranking index.search returned
RankOf(ranked, id) == CHOOSE i \in 1..Len(ranked) : ranked[i].id = id

\* C15: in the snippet loop of searchLocal a hit whose file can no longer be
\* read is left out and nothing else changes: the call does not fail, every
\* other hit of the top `limit` is pushed with its score, and the results stay
\* in the order of the ranking.
C15_SnippetFailureDropsOnlyThatHit ==
  [][\A p \in Procs :
       (proc[p].pc = "snippet" /\ Stepped(p)) =>
         LET id == Head(proc[p].todo)
             v == Vault(proc[p].cfg)
             gone == id \notin DOMAIN v \/ ~v[id].readable
             rs == proc'[p].results
         IN  /\ proc'[p].pc \in {"snippet", "done"}
             /\ proc'[p].todo = Tail(proc[p].todo)
             /\ gone => rs = proc[p].results
             /\ ~gone => rs = Append(proc[p].results,
                                     proc[p].ranked[RankOf(proc[p].ranked, id)])
             /\ \A i, j \in 1..Len(rs) :
                  i < j => RankOf(proc[p].ranked, rs[i].id)
                             < RankOf(proc[p].ranked, rs[j].id)]_vars

\* C15 witness: a search with two hits has returned the second one alone; the
\* file of the first was deleted or made unreadable after the ranking.
C15_Witness ==
  \E p \in Procs :
    /\ proc[p].pc = "done"
    /\ Len(proc[p].ranked) = 2
    /\ Limit(proc[p].opts[1]) >= 2
    /\ proc[p].results = <<proc[p].ranked[2]>>
    /\ SnippetFails(proc[p].cfg, proc[p].ranked[1].id)

\* C16: searchLocal returns at most options.limit results, at most 10 when no
\* limit is given, and exactly `limit` results when at least that many
\* documents match and the files of all of them can be read.
C16_LimitEnforced ==
  \A p \in Procs :
    proc[p].pc = "done" =>
      LET o == proc[p].opts[1]
          asked == IF o.limit = <<>> THEN DEFAULT_LIMIT ELSE o.limit[1]
          readable == \A i \in 1..Len(proc[p].ranked) :
                        ~SnippetFails(proc[p].cfg, proc[p].ranked[i].id)
      IN  /\ Len(proc[p].results) <= asked
          /\ (Len(proc[p].ranked) >= asked /\ readable)
                => Len(proc[p].results) = asked

\* a field of the document holds the term itself
HoldsTerm(doc, q) == \E i \in 1..Len(Fields) : q \in FieldTerms(doc, Fields[i])

\* C17: with options.exact the query runs with fuzzy and prefix off whatever
\* the fuzzy and prefix options say: every document index.search returns holds
\* a term equal to the query term, so a typo or a proper prefix of an indexed
\* term returns no hit.
C17_ExactMatchesEqualTermsOnly ==
  \A p \in Procs :
    (proc[p].pc \in {"snippet", "done"} /\ proc[p].opts[1].exact) =>
      LET o == proc[p].opts[1]
          idx == heap[proc[p].ref].index
      IN  /\ \A i \in 1..Len(proc[p].ranked) :
               HoldsTerm(idx[proc[p].ranked[i].id], o.query)
          /\ o.query \in {Cot, Ca} => proc[p].ranked = <<>>
          /\ \A id \in DOMAIN idx :
               (HoldsTerm(idx[id], o.query) /\ PassesFilter(idx[id], o))
                 => \E i \in 1..Len(proc[p].ranked) : proc[p].ranked[i].id = id

\* C17 witness: an exact search with fuzzy: true for a typo of a word the index
\* holds has returned nothing.
C17_Witness ==
  \E p \in Procs :
    /\ proc[p].pc = "done"
    /\ proc[p].opts[1].exact
    /\ proc[p].opts[1].fuzzy = "true"
    /\ proc[p].opts[1].prefix = "undefined"
    /\ proc[p].opts[1].query = Cot
    /\ proc[p].opts[1].tag = "" /\ proc[p].opts[1].folder = <<>>
    /\ proc[p].ref # NoObj
    /\ \E id \in DOMAIN heap[proc[p].ref].index :
         HoldsTerm(heap[proc[p].ref].index[id], Cat)
    /\ proc[p].ranked = <<>>

\* the terms of all fields of a document
AllTerms(doc) == UNION {FieldTerms(doc, Fields[i]) : i \in 1..Len(Fields)}

\* what a query without `exact` is to match under the caller's options:
\* equal terms, prefixes unless prefix is false, terms within the edit
\* distance of fuzzy 0.2 unless fuzzy is false
ShouldMatch(doc, o) ==
  \E term \in AllTerms(doc) :
    \/ term = o.query
    \/ o.prefix # "false" /\ StartsWith(term, o.query)
    \/ o.fuzzy # "false" /\ WithinDistance(o.query, term, MaxDistance(o.query, 2))

\* C18: without `exact` the query runs with fuzzy 0.2 and prefix on unless
\* the caller turns one of them off: with fuzzy false no document is returned
\* for an edit-distance match, with prefix false none for a prefix match, and
\* the documents matched otherwise are returned, on a built index and on a
\* restored one.
C18_FuzzyAndPrefixOverridable ==
  \A p \in Procs :
    (proc[p].pc \in {"snippet", "done"} /\ ~proc[p].opts[1].exact) =>
      LET o == proc[p].opts[1]
          idx == heap[proc[p].ref].index
          returned == {proc[p].ranked[i].id : i \in 1..Len(proc[p].ranked)}
      IN  returned = {id \in DOMAIN idx :
                        ShouldMatch(idx[id], o) /\ PassesFilter(idx[id], o)}

\* the query matches the document under the options index.search ran with
Matches(s, doc, o) ==
  Score(doc, o.query, MergedOptions(s.searchOptions, o), s.searchOptions) > 0

\* C19: the folder and the tag filter of searchLocal combine with AND on the
\* stored fields: every result has a stored folder that starts with the folder
\* asked for and a stored tag equal to the tag asked for, case ignored, and no
\* matching document that satisfies the filters asked for is missing from the
\* results of the query.
C19_FiltersCombineWithAnd ==
  \A p \in Procs :
    proc[p].pc \in {"snippet", "done", "failed"} =>
      LET o == proc[p].opts[1]
          s == heap[proc[p].ref]
          returned == {proc[p].ranked[i].id : i \in 1..Len(proc[p].ranked)}
      IN  /\ \A id \in returned :
               /\ o.folder # <<>> => StartsWith(FolderOf(id), o.folder)
               /\ o.tag # "" =>
                    \E tg \in StoredTags(s.index[id]) :
                      ToLowerCase(tg.text) = ToLowerCase(o.tag)
          /\ \A id \in DOMAIN s.index :
               (Matches(s, s.index[id], o) /\ PassesFilter(s.index[id], o))
                 => id \in returned

\* C20: of two documents returned for a query, one with the query term in its
\* title and the other with it in its body only, the title match outranks the
\* body match: it has the strictly higher score and so comes first, on a
\* built index and on one restored from the snapshot.
C20_TitleOutranksBody ==
  \A p \in Procs :
    proc[p].pc \in {"snippet", "done"} =>
      LET idx == heap[proc[p].ref].index
          ranked == proc[p].ranked
      IN  \A i, j \in 1..Len(ranked) :
            (idx[ranked[i].id].content = "t" /\ idx[ranked[j].id].content = "b")
              => (i < j /\ ranked[i].score > ranked[j].score)

\* C21: clearing a vault leaves it absent: once clearIndexCache has dropped
\* the in-memory record there is no on-disk record either.
C21_ClearLeavesVaultAbsent ==
  [][(cacheRef # NoObj /\ cacheRef' = NoObj) => disk'.kind = "absent"]_vars

\* C24: a call without forceRebuild that finds an in-memory state for the
\* vault name goes straight to updateIndex on that state object; until the
\* call is over it keeps that object, never loads the snapshot, never builds
\* from scratch and never writes the snapshot, the name stays registered to
\* the object, and what it returns is that object's index.
C24_InMemoryStateReused ==
  [][\A p \in Procs :
       /\ (/\ proc[p].pc = "idle" /\ proc'[p].pc # "idle"
           /\ proc'[p].why # "force" /\ cacheRef # NoObj)
            => /\ proc'[p].pc = "upd_list"
               /\ proc'[p].why = "memory"
               /\ proc'[p].ref = cacheRef
       /\ (proc[p].why = "memory" /\ Stepped(p) /\ proc'[p].pc # "idle")
            => /\ proc'[p].pc \in UpdatePcs \cup {"returned", "searched", "failed"}
               /\ proc'[p].why = "memory"
               /\ proc'[p].ref = proc[p].ref
               /\ cacheRef' = proc[p].ref
               /\ cacheRef = proc[p].ref
               /\ disk' = disk]_vars

\* C24 witness: a call on the in-memory path has returned the registered
\* object's index after its update changed it; the snapshot on disk is the
\* older one.
C24_Witness ==
  \E p \in Procs :
    /\ proc[p].pc = "returned"
    /\ proc[p].why = "memory"
    /\ proc[p].ref = cacheRef
    /\ Changed(proc[p]) > 0
    /\ disk.kind = "ok"
    /\ disk.indexData # heap[cacheRef].index

\* C26: between the per-file steps of the calls, the state registered for the
\* vault name has an index whose document ids are exactly the keys of its
\* id->mtime map, also once a call has ended with an exception.
C26_IndexAndMtimesAgree ==
  cacheRef # NoObj =>
    DOMAIN heap[cacheRef].index = DOMAIN heap[cacheRef].fileMtimes

\* C26 witness: an update of the registered state has ended with an exception
\* after it changed the state, which holds a document.
C26_Witness ==
  \E p \in Procs :
    /\ proc[p].pc = "failed"
    /\ proc[p].ref = cacheRef
    /\ cacheRef # NoObj
    /\ Changed(proc[p]) > 0
    /\ DOMAIN heap[cacheRef].index # {}

\* C27: the index getSearchIndex returns for a vault config belongs to that
\* config's path: the returned state's recorded vault path is the expanded
\* path of the config, and each of its documents is listed under that path,
\* also when the state was made in memory for another path.
C27_IndexServedForItsPath ==
  \A p \in Procs :
    proc[p].pc = "returned" =>
      LET s == heap[proc[p].ref] IN
      /\ s.vaultPath = proc[p].cfg
      /\ DOMAIN s.index \subseteq proc[p].currentFiles
      /\ \A id \in DOMAIN s.index :
           IF proc[p].cfg = "v1" THEN s.index[id].content \in Contents
           ELSE s.index[id] = buildDocument(proc[p].cfg, id)

\* the state holds what the vault holds: nothing was added, removed or
\* modified since the state was recorded
NothingChanged(s, path) ==
  /\ s.index = FullIndex(path)
  /\ s.fileMtimes = FullMtimes(path)

\* C29: a step of an update that has counted no change so far, in a call
\* during which no file of the vault was written, on a state that holds
\* exactly what the vault holds, changes neither the documents of the index,
\* nor the id->mtime map, nor the last-built timestamp, nor the stored
\* document count.
C29_NoChangeUpdateChangesNothing ==
  [][\A p \in Procs :
       (/\ proc[p].pc \in UpdatePcs
        /\ Stepped(p)
        /\ proc[p].quiet
        /\ Changed(proc[p]) = 0
        /\ NothingChanged(heap[proc[p].ref], proc[p].cfg))
         => LET old == heap[proc[p].ref]
                new == heap'[proc[p].ref]
            IN  /\ new.index = old.index
                /\ new.fileMtimes = old.fileMtimes
                /\ new.lastBuilt = old.lastBuilt
                /\ new.fileCount = old.fileCount]_vars

\* C29 witness: an update in a later call than the one that recorded the
\* state has returned without a change; the state holds a document and still
\* carries the earlier timestamp.
C29_Witness ==
  \E p \in Procs :
    /\ proc[p].pc = "returned"
    /\ proc[p].why = "memory"
    /\ proc[p].quiet
    /\ Changed(proc[p]) = 0
    /\ NothingChanged(heap[proc[p].ref], proc[p].cfg)
    /\ DOMAIN heap[proc[p].ref].index # {}
    /\ heap[proc[p].ref].lastBuilt < nCalls

\* C30: when updateIndex re-extracts a file the index already holds and the
\* extraction fails, the file's entry in the index and its recorded mtime stay
\* as they were, no other entry changes, and the update goes on with the
\* files that remain, or ends without an exception.
C30_FailedReextractionKeepsEntry ==
  [][\A p \in Procs :
       LET id == Head(proc[p].todo)
           v == Vault(proc[p].cfg)
           old == heap[proc[p].ref]
           new == heap'[proc[p].ref]
       IN  (/\ proc[p].pc = "upd_build"
            /\ Stepped(p)
            /\ id \in DOMAIN old.index
            /\ (id \notin DOMAIN v \/ ~v[id].readable))
             => /\ new.index = old.index
                /\ new.fileMtimes = old.fileMtimes
                /\ proc'[p].todo = Tail(proc[p].todo)
                /\ proc'[p].pc \in {"upd_stat", "returned", "save"}
                /\ proc'[p].updated = proc[p].updated
                /\ proc'[p].added = proc[p].added]_vars

\* C30 witness: an update has returned after it found a.md newer than
\* recorded and unreadable: the index still holds the entry and the mtime it
\* had, both older than the file, and the update went on to sub/b.md.
C30_Witness ==
  \E p \in Procs :
    LET s == heap[proc[p].ref] IN
    /\ proc[p].pc = "returned"
    /\ proc[p].why = "memory"
    /\ proc[p].cfg = "v1"
    /\ "a.md" \in DOMAIN files /\ ~files["a.md"].readable
    /\ "a.md" \in DOMAIN s.index
    /\ s.fileMtimes["a.md"] > 0
    /\ s.fileMtimes["a.md"] < files["a.md"].mtime
    /\ proc[p].updated = 0
    /\ "sub/b.md" \in proc[p].currentFiles
    /\ "sub/b.md" \in DOMAIN s.index

\* C22: processTerm returns null for the empty term, for a single Latin
\* letter and for a stop word, and the lowercased term otherwise; a single
\* CJK character that is no stop word comes back unchanged; so nothing it
\* returns is a stop word or a single Latin letter.
C22_ProcessTermContract ==
  text.phase = "processed" =>
    LET term == text.input
        r == text.out
        latin == LatinLower \cup LatinUpper
        dropped == \/ term = <<>>
                   \/ Len(term) = 1 /\ term[1] \in latin
                   \/ term \in stopWords
    IN  /\ dropped => r = <<>>
        /\ ~dropped => r = <<LowerText(term)>>
        /\ (Len(term) = 1 /\ term[1] \in MainCJK \cup ExtACJK /\ ~dropped)
             => r = <<term>>
        /\ r # <<>> => /\ r[1] \notin stopWords
                       /\ ~(Len(r[1]) = 1 /\ r[1][1] \in latin)

\* C23: once a document is added, a search for any term of its title, as
\* tokenize and processTerm left it in the index, returns the document.
C23_TitleTermsFindTheDocument ==
  text.phase = "searched" =>
    /\ \E j \in 1..Len(text.out) : text.out[j] = text.query
    /\ text.hit

\* C23 witness: a title with an upper-case letter and a CJK character was
\* added and found again by its word of two letters or more, and by a term
\* made of CJK characters.
C23_Witness ==
  /\ text.phase = "searched"
  /\ text.hit
  /\ \E i \in 1..Len(text.input) : text.input[i] \in LatinUpper
  /\ \E i \in 1..Len(text.input) : text.input[i] \in MainCJK
  /\ Len(text.query) >= 2
  /\ \E i \in 1..Len(text.query) : text.query[i] \in LatinLower

\* the characters of s from i to j are CJK characters, and the run ends there
MaximalCJKRun(s, i, j) ==
  LET cjk == MainCJK \cup ExtACJK IN
  /\ i <= j
  /\ \A k \in i..j : s[k] \in cjk
  /\ i = 1 \/ s[i - 1] \notin cjk
  /\ j = Len(s) \/ s[j + 1] \notin cjk

\* C25: tokenize emits every CJK character of the text (U+4E00-U+9FA5 and
\* U+3400-U+4DBF) as a token of its own and every maximal run of 2 to 4 CJK
\* characters as one token, and no token made of CJK characters only is among
\* the tokens of the split at word boundaries.
C25_TokenizerCJK ==
  text.phase = "tokenized" =>
    LET s == text.input
        tokens == SeqToSet(text.tokens)
        cjk == MainCJK \cup ExtACJK
        words == englishTokens(s)
    IN  /\ \A i \in 1..Len(s) : s[i] \in cjk => <<s[i]>> \in tokens
        /\ \A i, j \in 1..Len(s) :
             (MaximalCJKRun(s, i, j) /\ j - i + 1 \in 2..4)
               => SubSeq(s, i, j) \in tokens
        /\ \A k \in 1..Len(words) :
             \E i \in 1..Len(words[k]) : words[k][i] \notin cjk

\* C28: the index loadIndexCache restores from the snapshot of a built index
\* answers every query of searchLocal as the built index does: the same hits,
\* in the same order, with the same scores.
C28_SnapshotRoundTrip ==
  \A p \in Procs :
    (/\ proc[p].pc \in {"snippet", "done", "failed"}
     /\ heap[proc[p].ref].searchOptions = "configured")
      => LET saved == heap[proc[p].ref]
             restored == LoadedState(SnapshotOf(saved))
             r == IndexSearch(restored, proc[p].opts[1])
         IN  /\ r.ok = (proc[p].pc # "failed")
             /\ r.ranked = proc[p].ranked

====
